---- MODULE Spec2Model ----
(***************************************************************************)
(* Model of pynetro's NetroClient (src/src/pynetro/client.py): the eleven  *)
(* endpoint methods, which build a query or a JSON body and issue one      *)
(* request through the injected transport, and NetroClient._handle, which  *)
(* turns the transport's response into a returned envelope or an error.    *)
(*                                                                         *)
(* Python strings whose characters the code inspects (messages, envelope   *)
(* fields) are sequences of one-character strings; strings the code only   *)
(* passes through (serial, dates) are TLA+ strings.                        *)
(***************************************************************************)
EXTENDS Integers, Sequences, FiniteSets, TLC

VARIABLES
  pc,        \* position of the call in its method and in _handle
  method,    \* the endpoint method being called
  args,      \* the caller's arguments
  req,       \* the request handed to the transport
  resp,      \* the response the transport produced
  outcome,   \* what the caller gets: the returned envelope or the error
  rfsCalls,  \* calls of resp.raise_for_status() in this call
  jsonCalls, \* calls of resp.json() in this call
  sends,     \* calls of self._http.get / self._http.post in this call
  entered,   \* times the response scope was entered in this call
  exited,    \* times the response scope was exited in this call
  cfg,       \* the caller's NetroConfig object, which self._cfg refers to
  client,    \* the NetroClient: whether __init__ succeeded, and self._base
  cfg0,      \* the fields cfg had when __init__ ran
  peer       \* a second call in flight on the same NetroClient

callVars ==
  <<pc, method, args, req, resp, outcome, rfsCalls, jsonCalls, sends, entered, exited>>
adapterVars == <<cfg, client, cfg0>>
vars == <<callVars, adapterVars, peer>>

(***************************************************************************)
(* Bounds                                                                  *)
(***************************************************************************)
\* longest `errors` list of an envelope
MaxErrs == 2

(***************************************************************************)
(* String literals of client.py, as character sequences                    *)
(***************************************************************************)
S_OK == <<"O", "K">>
S_ERROR == <<"E", "R", "R", "O", "R">>
S_Empty == <<>>
S_API_ERROR == <<"A", "P", "I", " ", "E", "R", "R", "O", "R">>
S_AuthFailed ==
  <<"A", "u", "t", "h", "e", "n", "t", "i", "c", "a", "t", "i", "o", "n",
    " ", "f", "a", "i", "l", "e", "d">>
S_auth == <<"a", "u", "t", "h">>
S_invalid_key == <<"i", "n", "v", "a", "l", "i", "d", " ", "k", "e", "y">>
S_None == <<"N", "o", "n", "e">>
SepErr == <<";", " ">>
SepField == <<":", " ">>

\* texts used as inputs
S_E1 == <<"E", "1">>
S_InvalidKey == <<"I", "n", "v", "a", "l", "i", "d", " ", "k", "e", "y">>
S_NoAUTH == <<"N", "o", " ", "A", "U", "T", "H">>
S_Busy == <<"B", "u", "s", "y">>
S_Forbidden == <<"F", "o", "r", "b", "i", "d", "d", "e", "n">>

(***************************************************************************)
(* Python string operations                                                *)
(***************************************************************************)
Upper == <<"A", "B", "C", "D", "E", "F", "G", "H", "I", "J", "K", "L", "M",
           "N", "O", "P", "Q", "R", "S", "T", "U", "V", "W", "X", "Y", "Z">>
LowerAlpha == <<"a", "b", "c", "d", "e", "f", "g", "h", "i", "j", "k", "l", "m",
           "n", "o", "p", "q", "r", "s", "t", "u", "v", "w", "x", "y", "z">>

LowerChar(c) ==
  IF \E i \in 1..26 : Upper[i] = c
  THEN LowerAlpha[CHOOSE i \in 1..26 : Upper[i] = c]
  ELSE c

\* str.lower()
Lower(s) == [i \in 1..Len(s) |-> LowerChar(s[i])]

\* `sub in s`
Contains(s, sub) ==
  \E i \in 1..(Len(s) - Len(sub) + 1) : SubSeq(s, i, i + Len(sub) - 1) = sub

\* sep.join(items)
RECURSIVE Join(_, _)
Join(items, sep) ==
  IF Len(items) = 0 THEN <<>>
  ELSE IF Len(items) = 1 THEN items[1]
  ELSE items[1] \o sep \o Join(Tail(items), sep)

Digit == <<"0", "1", "2", "3", "4", "5", "6", "7", "8", "9">>

\* str(n) of a non-negative integer
RECURSIVE IntToStr(_)
IntToStr(n) ==
  IF n < 10 THEN <<Digit[n + 1]>>
  ELSE IntToStr(n \div 10) \o <<Digit[(n % 10) + 1]>>

(***************************************************************************)
(* JSON values as Python sees them after resp.json()                       *)
(***************************************************************************)
JNull == [kind |-> "null", val |-> 0]
JStr(s) == [kind |-> "str", val |-> s]
JNum(n) == [kind |-> "num", val |-> n]
JList(l) == [kind |-> "list", val |-> l]
JMap(m) == [kind |-> "map", val |-> m]
\* a body that is not valid JSON: resp.json() raises
JInvalid == [kind |-> "invalid", val |-> 0]

\* bool(v)
Truthy(v) ==
  CASE v.kind = "null" -> FALSE
    [] v.kind = "str" -> Len(v.val) > 0
    [] v.kind = "num" -> v.val # 0
    [] v.kind = "list" -> Len(v.val) > 0
    [] v.kind = "map" -> DOMAIN v.val # {}

\* dict.get(k): None when the key is absent
Get(m, k) == IF k \in DOMAIN m THEN m[k] ELSE JNull

\* str(v) as the f-string formats a field of an error entry
PyStr(v) ==
  CASE v.kind = "null" -> S_None
    [] v.kind = "str" -> v.val
    [] v.kind = "num" -> IntToStr(v.val)

\* d[k] = v on a mapping
Put(m, k, v) == [x \in (DOMAIN m) \cup {k} |-> IF x = k THEN v ELSE m[x]]

(***************************************************************************)
(* Outcomes of a call and errors of the transport                          *)
(***************************************************************************)
NoErr == [type |-> "none", msg |-> <<>>]
\* the error resp.raise_for_status() raises
HTTPError(m) == [type |-> "HTTPError", msg |-> m]

\* mutant of SuperClass: NetroAuthError derived from Exception directly
SuperClass_Flat(k) ==
  CASE k \in {"NetroError", "NetroAuthError", "HTTPError", "JSONDecodeError",
              "AttributeError", "TypeError"} -> "Exception"
    [] k \in {"Exception", "CancelledError"} -> "BaseException"
    [] OTHER -> "object"

\* the base class of an error class: class NetroError(Exception),
\* class NetroAuthError(NetroError); the others are Python's and the transport's
SuperClass(k) ==
  CASE k = "NetroAuthError" -> "NetroError"
    [] k \in {"NetroError", "HTTPError", "JSONDecodeError", "AttributeError",
              "TypeError"} -> "Exception"
    [] k \in {"Exception", "CancelledError"} -> "BaseException"
    [] OTHER -> "object"

\* isinstance(error of class k, cls)
RECURSIVE IsInstance(_, _)
IsInstance(k, cls) ==
  IF k = cls THEN TRUE
  ELSE IF k = "object" THEN FALSE
  ELSE IsInstance(SuperClass(k), cls)

NoOutcome == [kind |-> "none", msg |-> <<>>, value |-> JNull, cause |-> NoErr]
\* `return data`
Return(data) == [kind |-> "return", msg |-> <<>>, value |-> data, cause |-> NoErr]
\* `raise NetroAuthError(msg)`, `raise NetroError(msg)`
NetroAuthError(m) ==
  [kind |-> "NetroAuthError", msg |-> m, value |-> JNull, cause |-> NoErr]
NetroError(m) == [kind |-> "NetroError", msg |-> m, value |-> JNull, cause |-> NoErr]
\* mutant of NetroAuthErrorFrom: `from e` left out
NetroAuthErrorFrom_NoCause(e) ==
  [kind |-> "NetroAuthError", msg |-> e.msg, value |-> JNull, cause |-> NoErr]

\* `raise NetroAuthError(str(e)) from e`
NetroAuthErrorFrom(e) ==
  [kind |-> "NetroAuthError", msg |-> e.msg, value |-> JNull, cause |-> e]
\* an error of the transport that passes through the adapter
Propagate(e) == [kind |-> e.type, msg |-> e.msg, value |-> JNull, cause |-> NoErr]
\* resp.json() fails on the body
ParseError == [kind |-> "JSONDecodeError", msg |-> <<>>, value |-> JNull, cause |-> NoErr]
\* an error the interpreter raises inside _handle
PyRaise(k) == [kind |-> k, msg |-> <<>>, value |-> JNull, cause |-> NoErr]

(***************************************************************************)
(* NetroClient._handle, lines 52-58: the HTTP status                       *)
(***************************************************************************)
\* mutants of IsAuthStatus: 403 forgotten; every error status taken as auth
IsAuthStatus_Only401(st) == st = 401
IsAuthStatus_AnyError(st) == st >= 400

\* `resp.status in (401, 403)`
IsAuthStatus(st) == st \in {401, 403}

\* the error lines 52-58 raise for response r, NoOutcome when they pass:
\* r.rfs is what r.raise_for_status() raises (NoErr: nothing)
StatusOutcome(r) ==
  IF IsAuthStatus(r.status)
  THEN IF r.rfs # NoErr THEN NetroAuthErrorFrom(r.rfs)
       ELSE NetroAuthError(S_AuthFailed)
  ELSE IF r.rfs # NoErr THEN Propagate(r.rfs)
  ELSE NoOutcome

(***************************************************************************)
(* NetroClient._handle, lines 61-70: the envelope                          *)
(***************************************************************************)
\* `data.get("errors") or []`
ErrsOf(data) ==
  LET e == Get(data, "errors") IN IF Truthy(e) THEN e ELSE JList(<<>>)

\* mutant of FormatErr: the code left out of the item
FormatErr_MessageOnly(e) == PyStr(Get(e.val, "message"))

\* f"{e.get('code')}: {e.get('message')}"
FormatErr(e) == PyStr(Get(e.val, "code")) \o SepField \o PyStr(Get(e.val, "message"))

\* what evaluating the generator of line 65 raises, "none" when it completes:
\* a number is not iterable; e.get fails on an element that is no mapping;
\* a string or a mapping is iterated, and the filter drops every element
JoinRaises(errs) ==
  CASE errs.kind = "num" -> "TypeError"
    [] errs.kind = "list" /\ (\E i \in 1..Len(errs.val) : errs.val[i].kind # "map")
         -> "AttributeError"
    [] OTHER -> "none"

\* the items the generator of line 65 yields
ErrItems(errs) ==
  IF errs.kind = "list"
  THEN [i \in 1..Len(errs.val) |-> FormatErr(errs.val[i])]
  ELSE <<>>

\* `"; ".join(...) or "API ERROR"`
BuildMsg(errs) ==
  LET j == Join(ErrItems(errs), SepErr) IN IF Len(j) > 0 THEN j ELSE S_API_ERROR

\* mutant of IsAuthMsg: the match made case-sensitive
IsAuthMsg_CaseSensitive(m) == Contains(m, S_auth) \/ Contains(m, S_invalid_key)

\* `"auth" in msg.lower() or "invalid key" in msg.lower()`
IsAuthMsg(m) == Contains(Lower(m), S_auth) \/ Contains(Lower(m), S_invalid_key)

\* mutant of IsErrorStatus: the truth test on status dropped
IsErrorStatus_NoTruthTest(status) == status # JStr(S_OK)

\* `status and status != "OK"`
IsErrorStatus(status) == Truthy(status) /\ status # JStr(S_OK)

\* lines 61-70 on the parsed body
HandleEnvelope(data) ==
  IF data.kind # "map" THEN PyRaise("AttributeError")
  ELSE IF IsErrorStatus(Get(data.val, "status"))
  THEN LET errs == ErrsOf(data.val) IN
       IF JoinRaises(errs) # "none" THEN PyRaise(JoinRaises(errs))
       ELSE IF IsAuthMsg(BuildMsg(errs)) THEN NetroAuthError(BuildMsg(errs))
       ELSE NetroError(BuildMsg(errs))
  ELSE Return(data)

(***************************************************************************)
(* The endpoint methods: the query or body each one builds                 *)
(* The caller's arguments are a mapping from parameter names to values; a  *)
(* parameter left out of the call (or passed as None) is not in its domain.*)
(***************************************************************************)
\* `x is not None`
Given(a, k) == k \in DOMAIN a
\* `if x:` on an optional string
GivenNonEmpty(a, k) == k \in DOMAIN a /\ a[k] # ""
\* copy an argument into the mapping under a key when the condition holds
PutIf(c, m, k, v) == IF c THEN Put(m, k, v) ELSE m

\* float(x): the float of a number
ToFloat(x) == <<"float", x>>

\* list(zones)
ToList(z) == z

\* json.dumps(list(zones)) for a list of zone indices: "[1, 2]"
JsonDumps(l) ==
  <<"[">> \o Join([i \in 1..Len(l) |-> IntToStr(l[i])], <<",", " ">>) \o <<"]">>

GetReq(ep, p) == [verb |-> "GET", endpoint |-> ep, payload |-> p]
PostReq(ep, b) == [verb |-> "POST", endpoint |-> ep, payload |-> b]

\* the start_date / end_date part shared by the GET methods
WithDates(a, p) ==
  LET p1 == PutIf(GivenNonEmpty(a, "start_date"), p, "start_date",
                  IF Given(a, "start_date") THEN a.start_date ELSE "")
  IN PutIf(GivenNonEmpty(a, "end_date"), p1, "end_date",
           IF Given(a, "end_date") THEN a.end_date ELSE "")

\* mutant of WithZonesQuery: `if zones:` instead of `is not None`
WithZonesQuery_Truthy(a, p) ==
  PutIf(Given(a, "zones") /\ a.zones # <<>>, p, "zones",
        IF Given(a, "zones") THEN JsonDumps(ToList(a.zones)) ELSE <<>>)

\* the `zones` query parameter of get_schedules and get_moistures
WithZonesQuery(a, p) ==
  PutIf(Given(a, "zones"), p, "zones",
        IF Given(a, "zones") THEN JsonDumps(ToList(a.zones)) ELSE <<>>)

\* mutant of WithZonesBody: an omitted zones sent as an empty array
WithZonesBody_Always(a, b) ==
  Put(b, "zones", IF Given(a, "zones") THEN ToList(a.zones) ELSE <<>>)

\* the `zones` body field of water and set_moisture
WithZonesBody(a, b) ==
  PutIf(Given(a, "zones"), b, "zones",
        IF Given(a, "zones") THEN ToList(a.zones) ELSE <<>>)

get_info(a) == GetReq("info", [key |-> a.key])

get_schedules(a) ==
  GetReq("schedules", WithZonesQuery(a, WithDates(a, [key |-> a.key])))

get_moistures(a) ==
  GetReq("moistures", WithZonesQuery(a, WithDates(a, [key |-> a.key])))

get_events(a) ==
  GetReq("events",
         WithDates(a, PutIf(Given(a, "event"), [key |-> a.key], "event",
                            IF Given(a, "event") THEN a.event ELSE 0)))

\* mutant of set_status: `if enabled:` instead of `is not None`
set_status_Truthy(a) ==
  PostReq("set_status",
          PutIf(Given(a, "enabled") /\ a.enabled, [key |-> a.key], "status",
                IF Given(a, "enabled") /\ a.enabled THEN 1 ELSE 0))

set_status(a) ==
  PostReq("set_status",
          PutIf(Given(a, "enabled"), [key |-> a.key], "status",
                IF Given(a, "enabled") /\ a.enabled THEN 1 ELSE 0))

\* mutant of water: `if delay_minutes:` instead of `is not None`
water_TruthyDelay(a) ==
  LET b0 == [key |-> a.key, duration |-> a.duration_minutes]
      b1 == WithZonesBody(a, b0)
      b2 == PutIf(Given(a, "delay_minutes") /\ a.delay_minutes # 0, b1, "delay",
                  IF Given(a, "delay_minutes") THEN a.delay_minutes ELSE 0)
  IN PostReq("water",
             PutIf(Given(a, "start_time"), b2, "start_time",
                   IF Given(a, "start_time") THEN a.start_time ELSE ""))

water(a) ==
  LET b0 == [key |-> a.key, duration |-> a.duration_minutes]
      b1 == WithZonesBody(a, b0)
      b2 == PutIf(Given(a, "delay_minutes"), b1, "delay",
                  IF Given(a, "delay_minutes") THEN a.delay_minutes ELSE 0)
  IN PostReq("water",
             PutIf(Given(a, "start_time"), b2, "start_time",
                   IF Given(a, "start_time") THEN a.start_time ELSE ""))

stop_water(a) == PostReq("stop_water", [key |-> a.key])

\* `days: int = 1`
DefaultDays == 1

no_water(a) ==
  PostReq("no_water",
          [key |-> a.key, days |-> IF Given(a, "days") THEN a.days ELSE DefaultDays])

set_moisture(a) ==
  PostReq("set_moisture", WithZonesBody(a, [key |-> a.key, moisture |-> a.moisture]))

report_weather(a) ==
  LET b0 == [key |-> a.key, date |-> a.date]
      b1 == PutIf(Given(a, "condition"), b0, "condition",
                  IF Given(a, "condition") THEN a.condition ELSE 0)
      b2 == PutIf(Given(a, "rain"), b1, "rain",
                  ToFloat(IF Given(a, "rain") THEN a.rain ELSE 0))
      b3 == PutIf(Given(a, "rain_prob"), b2, "rain_prob",
                  IF Given(a, "rain_prob") THEN a.rain_prob ELSE 0)
  IN PostReq("report_weather",
             PutIf(Given(a, "temp"), b3, "temp",
                   ToFloat(IF Given(a, "temp") THEN a.temp ELSE 0)))

get_sensor_data(a) == GetReq("sensor_data", WithDates(a, [key |-> a.key]))

(***************************************************************************)
(* NetroConfig and NetroClient.__init__, _headers_get, _headers_post       *)
(* A base URL is a character sequence; header names and values, which the  *)
(* code only copies, are TLA+ strings. An optional field holds JNull for   *)
(* None.                                                                   *)
(***************************************************************************)
S_DefaultBase ==
  <<"h", "t", "t", "p", "s", ":", "/", "/", "a", "p", "i", ".", "n", "e", "t",
    "r", "o", "h", "o", "m", "e", ".", "c", "o", "m", "/", "n", "p", "a", "/",
    "v", "1">>

DefaultTimeout == 10

\* NetroConfig()
DefaultConfig ==
  [base_url |-> JStr(S_DefaultBase), default_timeout |-> DefaultTimeout,
   extra_headers |-> JNull]

\* mutant of RStripSlash: only one trailing slash removed
RStripSlash_Once(s) ==
  IF Len(s) > 0 /\ s[Len(s)] = "/" THEN SubSeq(s, 1, Len(s) - 1) ELSE s

\* str.rstrip("/")
RECURSIVE RStripSlash(_)
RStripSlash(s) ==
  IF Len(s) > 0 /\ s[Len(s)] = "/" THEN RStripSlash(SubSeq(s, 1, Len(s) - 1)) ELSE s

\* `(config.base_url or "").rstrip("/")`
BaseOf(c) == RStripSlash(IF Truthy(c.base_url) THEN c.base_url.val ELSE <<>>)

\* the adapter before __init__ has run
NoClient == [state |-> "none", base |-> <<>>]

\* NetroClient.__init__: ValueError on an empty base, else self._base is set
\* (self._cfg is the caller's config object itself, not a copy)
Construct(c) ==
  IF BaseOf(c) = <<>> THEN [state |-> "failed", base |-> <<>>]
  ELSE [state |-> "ok", base |-> BaseOf(c)]

\* dict.update
Update(h, e) ==
  [k \in (DOMAIN h) \cup (DOMAIN e) |-> IF k \in DOMAIN e THEN e[k] ELSE h[k]]

\* dict.setdefault
SetDefault(h, k, v) == IF k \in DOMAIN h THEN h ELSE Put(h, k, v)

\* mutant of headers_get: the default Accept wins over the extra headers
headers_get_DefaultWins(c) ==
  LET h == [Accept |-> "application/json"] IN
  IF Truthy(c.extra_headers) THEN Update(c.extra_headers.val, h) ELSE h

\* NetroClient._headers_get
headers_get(c) ==
  LET h == [Accept |-> "application/json"] IN
  IF Truthy(c.extra_headers) THEN Update(h, c.extra_headers.val) ELSE h

\* NetroClient._headers_post
headers_post(c) == SetDefault(headers_get(c), "Content-Type", "application/json")

\* mutant of Url: the separator between base and endpoint forgotten
Url_NoSlash(base, ep) == <<base, ep, ".json">>

\* f"{self._base}/<endpoint>.json": the pieces the f-string concatenates
Url(base, ep) == <<base, "/", ep, ".json">>

\* the request as the transport receives it: what the method built, the URL,
\* the headers and the timeout (read from self._cfg when the call is made)
Transmit(r, base, c) ==
  [verb |-> r.verb, endpoint |-> r.endpoint, payload |-> r.payload,
   url |-> Url(base, r.endpoint),
   headers |-> IF r.verb = "GET" THEN headers_get(c) ELSE headers_post(c),
   timeout |-> c.default_timeout]

\* configurations callers build
BaseUrls ==
  {JNull, JStr(<<>>), JStr(<<"/", "/">>), JStr(<<"h">>), JStr(<<"h", "/", "/">>),
   JStr(<<"g", "/">>)}
Timeouts == {DefaultTimeout, 3}
ExtraHeaders ==
  {JNull,
   JMap([Accept |-> "text/plain", Authorization |-> "Bearer t"]),
   JMap(Put(<<>>, "Content-Type", "text/plain"))}
Configs ==
  [base_url : BaseUrls, default_timeout : Timeouts, extra_headers : ExtraHeaders]

\* no configuration recorded yet
NoConfig == [base_url |-> JNull, default_timeout |-> 0, extra_headers |-> JNull]

(***************************************************************************)
(* Inputs: the arguments callers pass and the responses transports give    *)
(***************************************************************************)
Serials == {"SN123", "SN999"}
Dates == {"", "2024-01-01"}
StartTimes == {"", "2024-01-01 10:00"}
ZoneLists == {<<>>, <<1, 2>>, <<2, 1>>}
SmallInts == {0, 5}
Durations == {0, 30}
DaysValues == {1, 3}

\* the argument mapping extended by an optional argument the caller passes
Opt(a, k, given, v) == IF given THEN Put(a, k, v) ELSE a

\* a field that the envelope does not have (used to enumerate envelopes)
JAbsent == [kind |-> "absent", val |-> 0]

MkEnv(st, er, da, me) ==
  LET e1 == PutIf(st # JAbsent, <<>>, "status", st)
      e2 == PutIf(er # JAbsent, e1, "errors", er)
      e3 == PutIf(da # JAbsent, e2, "data", da)
  IN PutIf(me # JAbsent, e3, "meta", me)

ErrEntries ==
  {JMap([message |-> JStr(S_Busy)]), JMap([code |-> JStr(S_E1)])}
    \cup {JMap([code |-> JStr(S_E1), message |-> JStr(t)]) :
            t \in {S_InvalidKey, S_NoAUTH, S_Busy}}
ErrLists == UNION {[1..n -> ErrEntries] : n \in 0..MaxErrs}

\* `errors` values that are not a list of mappings
OddErrors ==
  {JNull, JNum(0), JNum(5), JStr(S_Busy), JStr(S_Empty),
   JMap([code |-> JStr(S_E1)]), JMap(<<>>),
   JList(<<JStr(S_Busy)>>), JList(<<JNull>>),
   JList(<<JMap([code |-> JStr(S_E1), message |-> JStr(S_Busy)]), JNum(1)>>)}

ErrorsValues == {JAbsent} \cup {JList(l) : l \in ErrLists} \cup OddErrors

StatusValues ==
  {JAbsent, JStr(S_OK), JStr(S_ERROR), JStr(S_Empty), JNull, JNum(0), JNum(1)}

DataSample == JMap([battery_level |-> JNum(8), serial |-> JStr(S_E1)])
MetaSample == JMap(<<>>)

Envelopes ==
  {MkEnv(st, er, JAbsent, JAbsent) : st \in StatusValues, er \in ErrorsValues}
    \cup {MkEnv(st, er, da, me) :
            st \in StatusValues,
            er \in {JAbsent, JList(<<JMap([code |-> JStr(S_E1),
                                           message |-> JStr(S_InvalidKey)])>>)},
            da \in {JAbsent, DataSample}, me \in {JAbsent, MetaSample}}

\* bodies: not JSON, JSON that is no mapping, envelopes
Bodies ==
  {JInvalid, JNull, JNum(3), JStr(S_OK), JList(<<>>),
   JList(<<JMap([status |-> JStr(S_OK)])>>)}
    \cup {JMap(e) : e \in Envelopes}

HttpStatuses == {200, 401, 403, 500}

\* what raise_for_status() may do for a status: 2xx passes; for an error
\* status the transport decides (NoErr: it does not raise)
RfsOutcomes(st) ==
  IF st < 400 THEN {NoErr}
  ELSE {NoErr, HTTPError(S_Forbidden)}

Responses ==
  UNION {[status : {st}, rfs : RfsOutcomes(st), body : Bodies] : st \in HttpStatuses}

NoArgs == <<>>
NoReq == [verb |-> "none", endpoint |-> "none", payload |-> <<>>]
NoResp == [status |-> 0, rfs |-> NoErr, body |-> JNull]

\* asyncio.CancelledError raised at a suspension point
Cancelled == [kind |-> "CancelledError", msg |-> <<>>, value |-> JNull, cause |-> NoErr]

\* mutant of ScopeExit: the response released only when the call returns
ScopeExit_OnReturnOnly(out) == IF out.kind = "return" THEN 1 ELSE 0

\* `async with ... as r:` calls __aexit__ once when the block is left, by
\* return or by any exception: the number of exits for an outcome of the block
ScopeExit(out) == 1

\* mutant of BodyOutcome: the parse error replaced by a generic API failure
BodyOutcome_WrapParse(r) ==
  IF r.body = JInvalid THEN NetroError(S_API_ERROR) ELSE HandleEnvelope(r.body)

\* lines 59-70: `await resp.json()` and the envelope
BodyOutcome(r) == IF r.body = JInvalid THEN ParseError ELSE HandleEnvelope(r.body)

\* no second call in flight
NoPeer ==
  [pc |-> "idle", method |-> "none", args |-> NoArgs, req |-> NoReq,
   resp |-> NoResp, outcome |-> NoOutcome]

(***************************************************************************)
(* State machine of one call                                               *)
(*   idle -> sent -> entered -> (parsing ->) done -> idle                  *)
(***************************************************************************)
Init ==
  /\ pc = "idle"
  /\ method = "none"
  /\ args = NoArgs
  /\ req = NoReq
  /\ resp = NoResp
  /\ outcome = NoOutcome
  /\ rfsCalls = 0
  /\ jsonCalls = 0
  /\ sends = 0
  /\ entered = 0
  /\ exited = 0
  /\ cfg = DefaultConfig
  /\ client = Construct(DefaultConfig)
  /\ cfg0 = DefaultConfig
  /\ peer = NoPeer

\* mutant of Call: the request issued a second time
Call_Twice(m, a, r) ==
  /\ client.state = "ok"
  /\ pc = "idle"
  /\ pc' = "sent"
  /\ method' = m
  /\ args' = a
  /\ req' = Transmit(r, client.base, cfg)
  /\ sends' = sends + 2
  /\ UNCHANGED <<resp, outcome, rfsCalls, jsonCalls, entered, exited, adapterVars, peer>>

\* a method builds its query or body and issues the request (self._http.get /
\* self._http.post); the call is suspended until the response is available
Call(m, a, r) ==
  /\ client.state = "ok"
  /\ pc = "idle"
  /\ pc' = "sent"
  /\ method' = m
  /\ args' = a
  /\ req' = Transmit(r, client.base, cfg)
  /\ sends' = sends + 1
  /\ UNCHANGED <<resp, outcome, rfsCalls, jsonCalls, entered, exited, adapterVars, peer>>

CallGetInfo ==
  \E k \in Serials : LET a == [key |-> k] IN Call("get_info", a, get_info(a))

\* the optional start_date / end_date arguments
DateArgs(a) ==
  {Opt(Opt(a, "start_date", g1, d1), "end_date", g2, d2) :
     g1 \in BOOLEAN, d1 \in Dates, g2 \in BOOLEAN, d2 \in Dates}

\* the optional zones argument
ZoneArgs(a) == {Opt(a, "zones", g, z) : g \in BOOLEAN, z \in ZoneLists}

CallGetSchedules ==
  \E k \in Serials : \E a0 \in DateArgs([key |-> k]) : \E a \in ZoneArgs(a0) :
    Call("get_schedules", a, get_schedules(a))

CallGetMoistures ==
  \E k \in Serials : \E a0 \in DateArgs([key |-> k]) : \E a \in ZoneArgs(a0) :
    Call("get_moistures", a, get_moistures(a))

CallGetEvents ==
  \E k \in Serials : \E a0 \in DateArgs([key |-> k]) : \E g \in BOOLEAN, e \in {0, 1} :
    LET a == Opt(a0, "event", g, e) IN Call("get_events", a, get_events(a))

CallSetStatus ==
  \E k \in Serials : \E g \in BOOLEAN, e \in BOOLEAN :
    LET a == Opt([key |-> k], "enabled", g, e) IN Call("set_status", a, set_status(a))

CallWater ==
  \E k \in Serials, d \in Durations :
    \E a0 \in ZoneArgs([key |-> k, duration_minutes |-> d]) :
      \E g1 \in BOOLEAN, dl \in SmallInts, g2 \in BOOLEAN, t \in StartTimes :
        LET a == Opt(Opt(a0, "delay_minutes", g1, dl), "start_time", g2, t)
        IN Call("water", a, water(a))

CallStopWater ==
  \E k \in Serials : LET a == [key |-> k] IN Call("stop_water", a, stop_water(a))

CallNoWater ==
  \E k \in Serials : \E g \in BOOLEAN, d \in DaysValues :
    LET a == Opt([key |-> k], "days", g, d) IN Call("no_water", a, no_water(a))

CallSetMoisture ==
  \E k \in Serials, m \in {0, 50} : \E a \in ZoneArgs([key |-> k, moisture |-> m]) :
    Call("set_moisture", a, set_moisture(a))

CallReportWeather ==
  \E k \in Serials, d \in {"2024-01-01"} :
    \E g1 \in BOOLEAN, c \in SmallInts, g2 \in BOOLEAN, r \in SmallInts,
       g3 \in BOOLEAN, rp \in SmallInts, g4 \in BOOLEAN, t \in SmallInts :
      LET a == Opt(Opt(Opt(Opt([key |-> k, date |-> d], "condition", g1, c),
                           "rain", g2, r), "rain_prob", g3, rp), "temp", g4, t)
      IN Call("report_weather", a, report_weather(a))

CallGetSensorData ==
  \E k \in Serials : \E a \in DateArgs([key |-> k]) :
    Call("get_sensor_data", a, get_sensor_data(a))

\* the transport delivers the response: `async with ... as r` is entered.
\* The request has been transmitted; the method's locals are not used again.
RespondWith(rs) ==
  /\ pc = "sent"
  /\ \E r \in rs : resp' = r
  /\ pc' = "entered"
  /\ entered' = entered + 1
  /\ args' = NoArgs
  /\ req' = NoReq
  /\ UNCHANGED <<method, outcome, rfsCalls, jsonCalls, sends, exited, adapterVars, peer>>

Respond == RespondWith(Responses)

\* _handle, lines 52-59, up to the suspension in `await resp.json()`
HandleStatus ==
  /\ pc = "entered"
  /\ rfsCalls' = rfsCalls + 1
  /\ outcome' = StatusOutcome(resp)
  /\ pc' = IF StatusOutcome(resp) = NoOutcome THEN "parsing" ELSE "done"
  /\ exited' = IF StatusOutcome(resp) = NoOutcome THEN exited
                ELSE exited + ScopeExit(StatusOutcome(resp))
  /\ UNCHANGED <<method, args, req, resp, jsonCalls, sends, entered, adapterVars, peer>>

\* _handle, lines 59-70: the body has been read and parsed
HandleBody ==
  /\ pc = "parsing"
  /\ jsonCalls' = jsonCalls + 1
  /\ outcome' = BodyOutcome(resp)
  /\ pc' = "done"
  /\ exited' = exited + ScopeExit(BodyOutcome(resp))
  /\ UNCHANGED <<method, args, req, resp, rfsCalls, sends, entered, adapterVars, peer>>

\* the caller's task is cancelled while the call is suspended: waiting for the
\* response (scope not yet entered) or in `await resp.json()` (inside the
\* `async with` block, which exits the scope as CancelledError leaves it)
Cancel ==
  /\ pc \in {"sent", "parsing"}
  /\ outcome' = Cancelled
  /\ exited' = IF pc = "parsing" THEN exited + ScopeExit(Cancelled) ELSE exited
  /\ pc' = "cancelled"
  /\ args' = NoArgs
  /\ req' = NoReq
  /\ UNCHANGED <<method, resp, rfsCalls, jsonCalls, sends, entered, adapterVars, peer>>

\* the caller has the result; the adapter is ready for the next call
Finish ==
  /\ pc \in {"done", "cancelled"}
  /\ pc' = "idle"
  /\ method' = "none"
  /\ resp' = NoResp
  /\ outcome' = NoOutcome
  /\ rfsCalls' = 0
  /\ jsonCalls' = 0
  /\ sends' = 0
  /\ entered' = 0
  /\ exited' = 0
  /\ UNCHANGED <<args, req, adapterVars, peer>>

Next ==
  \/ CallGetInfo
  \/ CallGetSchedules
  \/ CallGetMoistures
  \/ CallGetEvents
  \/ CallSetStatus
  \/ CallWater
  \/ CallStopWater
  \/ CallNoWater
  \/ CallSetMoisture
  \/ CallReportWeather
  \/ CallGetSensorData
  \/ Respond
  \/ HandleStatus
  \/ HandleBody
  \/ Cancel
  \/ Finish

Spec == Init /\ [][Next]_vars

(***************************************************************************)
(* Construction from any configuration, then calls                         *)
(***************************************************************************)
\* a few responses of each kind
SampleResponses ==
  {[status |-> 200, rfs |-> NoErr,
    body |-> JMap(MkEnv(JStr(S_OK), JAbsent, DataSample, MetaSample))],
   [status |-> 200, rfs |-> NoErr,
    body |-> JMap(MkEnv(JStr(S_ERROR),
                        JList(<<JMap([code |-> JStr(S_E1),
                                      message |-> JStr(S_InvalidKey)])>>),
                        JAbsent, JAbsent))],
   [status |-> 200, rfs |-> NoErr,
    body |-> JMap(MkEnv(JStr(S_ERROR),
                        JList(<<JMap([code |-> JStr(S_E1),
                                      message |-> JStr(S_Busy)])>>),
                        JAbsent, JAbsent))],
   [status |-> 200, rfs |-> NoErr, body |-> JInvalid],
   [status |-> 403, rfs |-> HTTPError(S_Forbidden), body |-> JInvalid],
   [status |-> 500, rfs |-> HTTPError(S_Forbidden), body |-> JInvalid]}

\* the caller has built a configuration; no NetroClient exists yet
InitConfig ==
  /\ pc = "idle"
  /\ method = "none"
  /\ args = NoArgs
  /\ req = NoReq
  /\ resp = NoResp
  /\ outcome = NoOutcome
  /\ rfsCalls = 0
  /\ jsonCalls = 0
  /\ sends = 0
  /\ entered = 0
  /\ exited = 0
  /\ cfg \in Configs
  /\ client = NoClient
  /\ cfg0 = NoConfig
  /\ peer = NoPeer

\* NetroClient(http, config)
ConstructClient ==
  /\ client.state = "none"
  /\ client' = Construct(cfg)
  /\ cfg0' = cfg
  /\ UNCHANGED <<callVars, cfg, peer>>

RespondSample == RespondWith(SampleResponses)

NextConfig ==
  \/ ConstructClient
  \/ CallGetInfo
  \/ CallGetSchedules
  \/ CallGetMoistures
  \/ CallGetEvents
  \/ CallSetStatus
  \/ CallWater
  \/ CallStopWater
  \/ CallNoWater
  \/ CallSetMoisture
  \/ CallReportWeather
  \/ CallGetSensorData
  \/ RespondSample
  \/ HandleStatus
  \/ HandleBody
  \/ Cancel
  \/ Finish

SpecConfig == InitConfig /\ [][NextConfig]_vars

(***************************************************************************)
(* The caller keeps its NetroConfig object and assigns to its fields       *)
(***************************************************************************)
\* config.base_url = ..., config.default_timeout = ..., config.extra_headers = ...
\* (NetroConfig is a plain dataclass, not frozen)
MutateConfig ==
  /\ \E c \in Configs : c # cfg /\ cfg' = c
  /\ UNCHANGED <<callVars, client, cfg0, peer>>

NextMutate ==
  \/ ConstructClient
  \/ MutateConfig
  \/ CallGetInfo
  \/ CallStopWater
  \/ RespondSample
  \/ HandleStatus
  \/ HandleBody
  \/ Cancel
  \/ Finish

SpecMutate == InitConfig /\ [][NextMutate]_vars

(***************************************************************************)
(* Two calls on one NetroClient, interleaved at their suspension points.   *)
(* The second coroutine has its own locals (params, r, data), held in      *)
(* `peer`; both read self._base and self._cfg.                             *)
(***************************************************************************)
\* configurations from which a client is constructed
ConcConfigs == {c \in Configs : Construct(c).state = "ok"}

InitConc ==
  /\ pc = "idle"
  /\ method = "none"
  /\ args = NoArgs
  /\ req = NoReq
  /\ resp = NoResp
  /\ outcome = NoOutcome
  /\ rfsCalls = 0
  /\ jsonCalls = 0
  /\ sends = 0
  /\ entered = 0
  /\ exited = 0
  /\ cfg \in ConcConfigs
  /\ client = Construct(cfg)
  /\ cfg0 = cfg
  /\ peer = NoPeer

\* the second task calls a method: the request is built and issued
PeerCall(m, a, r) ==
  /\ client.state = "ok"
  /\ peer.pc = "idle"
  /\ peer' = [pc |-> "sent", method |-> m, args |-> a,
              req |-> Transmit(r, client.base, cfg),
              resp |-> NoResp, outcome |-> NoOutcome]
  /\ UNCHANGED <<callVars, adapterVars>>

PeerCallGetInfo ==
  \E k \in Serials : LET a == [key |-> k] IN PeerCall("get_info", a, get_info(a))

PeerCallNoWater ==
  \E k \in Serials : \E g \in BOOLEAN, d \in DaysValues :
    LET a == Opt([key |-> k], "days", g, d) IN PeerCall("no_water", a, no_water(a))

\* the transport delivers the second call's response
PeerRespond ==
  /\ peer.pc = "sent"
  /\ \E r \in SampleResponses :
       peer' = [peer EXCEPT !.pc = "entered", !.resp = r]
  /\ UNCHANGED <<callVars, adapterVars>>

\* _handle of the second call, up to `await resp.json()`
PeerHandleStatus ==
  /\ peer.pc = "entered"
  /\ peer' = [peer EXCEPT
                !.outcome = StatusOutcome(peer.resp),
                !.pc = IF StatusOutcome(peer.resp) = NoOutcome
                       THEN "parsing" ELSE "done"]
  /\ UNCHANGED <<callVars, adapterVars>>

\* mutant of PeerHandleBody: the response kept in a field of the adapter that
\* the other call overwrites
PeerHandleBody_SharedResp ==
  /\ peer.pc = "parsing"
  /\ peer' = [peer EXCEPT
                !.outcome = BodyOutcome(IF pc \in {"entered", "parsing", "done"}
                                        THEN resp ELSE peer.resp),
                !.pc = "done"]
  /\ UNCHANGED <<callVars, adapterVars>>

\* _handle of the second call after the body was read: `data` is its local
PeerHandleBody ==
  /\ peer.pc = "parsing"
  /\ peer' = [peer EXCEPT !.outcome = BodyOutcome(peer.resp), !.pc = "done"]
  /\ UNCHANGED <<callVars, adapterVars>>

\* the second task has its result
PeerFinish ==
  /\ peer.pc = "done"
  /\ peer' = NoPeer
  /\ UNCHANGED <<callVars, adapterVars>>

NextConc ==
  \/ CallGetInfo
  \/ CallSetStatus
  \/ RespondSample
  \/ HandleStatus
  \/ HandleBody
  \/ Finish
  \/ PeerCallGetInfo
  \/ PeerCallNoWater
  \/ PeerRespond
  \/ PeerHandleStatus
  \/ PeerHandleBody
  \/ PeerFinish

SpecConc == InitConc /\ [][NextConc]_vars

(***************************************************************************)
(* Vocabulary of the properties                                            *)
(***************************************************************************)
Methods ==
  {"get_info", "get_schedules", "get_moistures", "get_events", "set_status",
   "water", "stop_water", "no_water", "set_moisture", "report_weather",
   "get_sensor_data"}

\* the call is over and the caller has its result or its error
Done == pc = "done" /\ method \in Methods

\* the HTTP-error check passed and the body was parsed into a mapping
ParsedEnvelope ==
  /\ Done
  /\ ~(resp.status \in {401, 403})
  /\ resp.rfs = NoErr
  /\ resp.body.kind = "map"

HasField(k) == k \in DOMAIN resp.body.val
Field(k) == Get(resp.body.val, k)

ListOfMappings(v) ==
  v.kind = "list" /\ \A i \in 1..Len(v.val) : v.val[i].kind = "map"

\* a status that is set (not empty, null or zero) and is not "OK"
StatusSignalsError ==
  HasField("status") /\ Truthy(Field("status")) /\ Field("status") # JStr(S_OK)

\* the message as the specification words it: "<code>: <message>" per entry,
\* joined by "; " in list order (a field an entry lacks reads None)
ItemText(e, k) == IF k \in DOMAIN e.val THEN e.val[k].val ELSE <<"N", "o", "n", "e">>
ItemOf(e) == ItemText(e, "code") \o <<":", " ">> \o ItemText(e, "message")
RECURSIVE JoinedMessage(_)
JoinedMessage(l) ==
  IF Len(l) = 0 THEN <<>>
  ELSE IF Len(l) = 1 THEN ItemOf(l[1])
  ELSE ItemOf(l[1]) \o <<";", " ">> \o JoinedMessage(Tail(l))

\* word occurs in m in any letter case (word is lower case)
OccursAnyCase(m, word) ==
  \E i \in 1..(Len(m) - Len(word) + 1) :
    \A j \in 1..Len(word) : LowerChar(m[i + j - 1]) = word[j]
AuthFlavoured(m) == OccursAnyCase(m, S_auth) \/ OccursAnyCase(m, S_invalid_key)

\* the envelope's errors are a non-empty list of mappings, so a message is joined
HasJoinedMessage ==
  HasField("errors") /\ ListOfMappings(Field("errors")) /\ Len(Field("errors").val) > 0

(***************************************************************************)
(* Properties                                                              *)
(***************************************************************************)

\* C1: a response with HTTP status 401 or 403 always ends the call with a
\* NetroAuthError, for every method, every body and whether or not
\* raise_for_status() raises; the call never reaches the body parse, never
\* returns and never raises a plain NetroError.
C1_AuthOn401403 ==
  (pc \in {"parsing", "done"} /\ resp.status \in {401, 403})
    => /\ pc = "done"
       /\ outcome.kind = "NetroAuthError"
       /\ jsonCalls = 0

\* a 403 whose check does not raise and whose body is an OK envelope
C1_Witness ==
  /\ Done
  /\ resp.status = 403
  /\ resp.rfs = NoErr
  /\ resp.body = JMap(MkEnv(JStr(S_OK), JAbsent, DataSample, MetaSample))
  /\ outcome.kind = "NetroAuthError"

\* C2: when the HTTP-error check passed and the parsed envelope has no
\* status or status "OK", the call returns the envelope exactly as parsed:
\* same keys, same values.
C2_OkEnvelopeUnchanged ==
  (ParsedEnvelope /\ (~HasField("status") \/ Field("status") = JStr(S_OK)))
    => /\ outcome.kind = "return"
       /\ outcome.value = resp.body
       /\ DOMAIN outcome.value.val = DOMAIN resp.body.val

\* an envelope without status but with errors, data and meta is returned
C2_Witness ==
  /\ ParsedEnvelope
  /\ DOMAIN resp.body.val = {"errors", "data", "meta"}
  /\ outcome.kind = "return"

\* C3: every call ends in one of five kinds of outcome: a returned envelope
\* mapping, NetroAuthError, NetroError, the transport's HTTP error, or the
\* body-parse error.
C3_FiveOutcomes ==
  Done =>
    \/ outcome.kind = "return" /\ outcome.value.kind = "map"
    \/ outcome.kind \in {"NetroAuthError", "NetroError", "HTTPError", "JSONDecodeError"}

\* C4: an envelope whose status is present and differs from "OK" (whatever
\* the value) makes the call raise NetroAuthError or NetroError; it is never
\* returned.
C4_PresentNonOkRaises ==
  (ParsedEnvelope /\ HasField("status") /\ Field("status") # JStr(S_OK))
    => outcome.kind \in {"NetroAuthError", "NetroError"}

C7_FallbackMessage ==
  (ParsedEnvelope /\ StatusSignalsError
     /\ (~HasField("errors") \/ ~Truthy(Field("errors"))
           \/ ~ListOfMappings(Field("errors"))))
    => outcome = NetroError(S_API_ERROR)

\* C8: when the status is an error status other than 401 and 403 and
\* raise_for_status() raises, the caller receives that very error, not
\* wrapped, and the body is never parsed.
C8_HttpErrorPropagates ==
  (pc \in {"parsing", "done"} /\ resp.status >= 400 /\ ~(resp.status \in {401, 403})
     /\ resp.rfs # NoErr)
    => /\ pc = "done"
       /\ outcome.kind = resp.rfs.type
       /\ outcome.msg = resp.rfs.msg
       /\ outcome.cause = NoErr
       /\ jsonCalls = 0

\* a 500 whose body is an envelope with an auth-flavoured error list
C8_Witness ==
  /\ Done
  /\ resp.status = 500
  /\ resp.rfs = HTTPError(S_Forbidden)
  /\ resp.body = JMap([status |-> JStr(S_ERROR),
                       errors |-> JList(<<JMap([code |-> JStr(S_E1),
                                                message |-> JStr(S_NoAUTH)])>>)])
  /\ outcome.kind = "HTTPError"

\* the request has been built and handed to the transport
Sent == pc = "sent" /\ method \in Methods

\* the key under which the catalogue transmits a parameter
KeyOf(name) ==
  CASE name = "enabled" -> "status"
    [] name = "duration_minutes" -> "duration"
    [] name = "delay_minutes" -> "delay"
    [] OTHER -> name

\* keys of the parameters the caller passed (the required ones are always passed)
SuppliedKeys == {KeyOf(n) : n \in DOMAIN args}

\* start_date / end_date passed as the empty string
PassedEmpty == {n \in DOMAIN args \cap {"start_date", "end_date"} : args[n] = ""}

\* C9 as stated: the transmitted keys are exactly the required keys plus the
\* keys of the optional parameters the caller supplied; an omitted optional
\* parameter, `days` of no_water included, is never a key.
C9_OnlySuppliedKeys ==
  Sent => DOMAIN req.payload = SuppliedKeys

\* C9 as amended: the transmitted keys are the required keys, plus `days` for
\* no_water (the default 1 when the caller omitted it), plus the keys of the
\* optional parameters the caller supplied, except a start_date or end_date
\* supplied as the empty string; no other omitted parameter is a key.
C9_KeysSentAmended ==
  Sent =>
    /\ DOMAIN req.payload =
         {KeyOf(n) : n \in (DOMAIN args) \ PassedEmpty}
           \cup (IF method = "no_water" THEN {"days"} ELSE {})
    /\ (method = "no_water" /\ ~("days" \in DOMAIN args)) => req.payload.days = 1

\* get_schedules with an empty start_date, an end_date and no zones
C9_Witness ==
  /\ Sent
  /\ method = "get_schedules"
  /\ DOMAIN args = {"key", "start_date", "end_date"}
  /\ args.start_date = ""
  /\ DOMAIN req.payload = {"key", "end_date"}

\* C10: water sends a POST whose body is exactly key and duration plus zones
\* (the caller's list, in order), delay and start_time for those of the three
\* the caller supplied; water("SN123", duration_minutes=30, zones=[1,2],
\* delay_minutes=5) sends {key: "SN123", duration: 30, zones: [1,2], delay: 5}.
C10_WaterBody ==
  (Sent /\ method = "water") =>
    /\ req.verb = "POST"
    /\ DOMAIN req.payload =
         {"key", "duration"}
           \cup {KeyOf(n) : n \in (DOMAIN args) \cap {"zones", "delay_minutes", "start_time"}}
    /\ req.payload.key = args.key
    /\ req.payload.duration = args.duration_minutes
    /\ \A n \in (DOMAIN args) \cap {"zones", "delay_minutes", "start_time"} :
         req.payload[KeyOf(n)] = args[n]
    /\ (args = [key |-> "SN123", duration_minutes |-> 30, zones |-> <<1, 2>>,
                delay_minutes |-> 5])
         => req.payload = [key |-> "SN123", duration |-> 30, zones |-> <<1, 2>>,
                           delay |-> 5]

\* the scenario of the specification
C10_Witness ==
  /\ Sent
  /\ method = "water"
  /\ DOMAIN args = {"key", "duration_minutes", "zones", "delay_minutes"}
  /\ args.zones = <<1, 2>>
  /\ args.delay_minutes = 5
  /\ args.duration_minutes = 30
  /\ "delay" \in DOMAIN req.payload

\* the text with its blanks removed
RECURSIVE StripBlanks(_)
StripBlanks(t) ==
  IF Len(t) = 0 THEN <<>>
  ELSE IF Head(t) = " " THEN StripBlanks(Tail(t))
  ELSE <<Head(t)>> \o StripBlanks(Tail(t))

\* the compact JSON array text of a list of zone indices
RECURSIVE CompactItems(_)
CompactItems(zs) ==
  IF Len(zs) = 0 THEN <<>>
  ELSE IF Len(zs) = 1 THEN IntToStr(zs[1])
  ELSE IntToStr(zs[1]) \o <<",">> \o CompactItems(Tail(zs))
CompactArrayText(zs) == <<"[">> \o CompactItems(zs) \o <<"]">>

JsonChars == {"[", "]", ",", " ", "0", "1", "2", "3", "4", "5", "6", "7", "8", "9"}

\* C11: get_schedules and get_moistures send `zones` as one string holding the
\* JSON array text of the caller's indices in the caller's order, for every
\* list supplied, the empty list included; without zones the query has no
\* `zones` key. zones=[1,2] gives "[1, 2]".
C11_ZonesQueryText ==
  (Sent /\ method \in {"get_schedules", "get_moistures"}) =>
    /\ req.verb = "GET"
    /\ ("zones" \in DOMAIN req.payload) <=> ("zones" \in DOMAIN args)
    /\ ("zones" \in DOMAIN args) =>
         /\ \A i \in 1..Len(req.payload.zones) : req.payload.zones[i] \in JsonChars
         /\ StripBlanks(req.payload.zones) = CompactArrayText(args.zones)
    /\ ("zones" \in DOMAIN args /\ args.zones = <<1, 2>>) =>
         req.payload.zones = <<"[", "1", ",", " ", "2", "]">>

\* get_moistures with the empty list sends "[]"
C11_Witness ==
  /\ Sent
  /\ method = "get_moistures"
  /\ "zones" \in DOMAIN args
  /\ args.zones = <<>>
  /\ "zones" \in DOMAIN req.payload
  /\ req.payload.zones = <<"[", "]">>

\* C12: set_status sends `status` 1 for enabled=True and 0 for enabled=False,
\* no `status` key when enabled is not supplied, and never a key `enabled`.
C12_SetStatusBody ==
  (Sent /\ method = "set_status") =>
    /\ req.verb = "POST"
    /\ ~("enabled" \in DOMAIN req.payload)
    /\ ("status" \in DOMAIN req.payload) <=> ("enabled" \in DOMAIN args)
    /\ ("enabled" \in DOMAIN args) =>
         req.payload.status = (IF args.enabled THEN 1 ELSE 0)

\* enabled=False is sent as status 0
C12_Witness ==
  /\ Sent
  /\ method = "set_status"
  /\ "enabled" \in DOMAIN args
  /\ args.enabled = FALSE
  /\ "status" \in DOMAIN req.payload
  /\ req.payload.status = 0

\* the configured base URL has a character other than "/"
NonEmptyWhenStripped(b) ==
  b.kind = "str" /\ \E i \in 1..Len(b.val) : b.val[i] # "/"

\* C13: construction succeeds exactly when the configured base URL is
\* non-empty after its trailing slashes are removed; for an empty, missing or
\* all-slashes base URL it fails in the constructor, before any request.
C13_ConstructionIffBase ==
  /\ client.state # "none" =>
       (client.state = "ok" <=> NonEmptyWhenStripped(cfg0.base_url))
  /\ client.state # "ok" => (pc = "idle" /\ sends = 0)

\* "//" is refused
C13_Witness ==
  /\ client.state = "failed"
  /\ cfg0.base_url = JStr(<<"/", "/">>)

\* the extra headers of the configuration, none when the field is None
ExtraOf(c) == IF c.extra_headers.kind = "map" THEN c.extra_headers.val ELSE <<>>

\* C14: every request carries every extra header with the caller's value, and
\* `Accept: application/json` unless the extra headers have their own Accept;
\* a POST carries in addition `Content-Type: application/json` unless the
\* extra headers have Content-Type, whose value is then sent.
C14_Headers ==
  Sent =>
    /\ DOMAIN req.headers =
         (DOMAIN ExtraOf(cfg)) \cup {"Accept"}
           \cup (IF req.verb = "POST" THEN {"Content-Type"} ELSE {})
    /\ \A k \in DOMAIN ExtraOf(cfg) : req.headers[k] = ExtraOf(cfg)[k]
    /\ ~("Accept" \in DOMAIN ExtraOf(cfg)) => req.headers["Accept"] = "application/json"
    /\ (req.verb = "POST" /\ ~("Content-Type" \in DOMAIN ExtraOf(cfg)))
         => req.headers["Content-Type"] = "application/json"

\* a GET whose extra headers replace Accept
C14_Witness ==
  /\ Sent
  /\ req.verb = "GET"
  /\ "Accept" \in DOMAIN ExtraOf(cfg)
  /\ req.headers["Accept"] = "text/plain"
  /\ req.headers["Authorization"] = "Bearer t"

\* the call has started and control has not yet returned to the caller's next call
InCall == pc \in {"sent", "entered", "parsing", "done", "cancelled"}

\* C15: a method call issues exactly one request through the transport, one
\* get or one post, and issues none after it, whatever the outcome.
C15_OneRequestPerCall ==
  /\ InCall => sends = 1
  /\ pc = "idle" => sends = 0
  /\ Sent => req.verb \in {"GET", "POST"}

\* a call that failed with the transport's HTTP error made one request
C15_Witness ==
  /\ Done
  /\ outcome.kind = "HTTPError"
  /\ sends = 1

\* C16: every request uses the base URL, the timeout and the extra headers
\* the configuration held when the adapter was constructed, even when the
\* caller modifies the configuration object afterwards.
C16_ConfigAsConstructed ==
  Sent =>
    /\ req.url = Url(BaseOf(cfg0), req.endpoint)
    /\ req.timeout = cfg0.default_timeout
    /\ req.headers = (IF req.verb = "GET" THEN headers_get(cfg0) ELSE headers_post(cfg0))

\* C18: when the response scope of a call was entered it is exited exactly
\* once before control returns to the caller, on every path: return, adapter
\* error, HTTP error, parse error, cancellation during the body read.
C18_ScopeReleased ==
  /\ exited <= entered
  /\ entered <= 1
  /\ pc \in {"entered", "parsing"} => (entered = 1 /\ exited = 0)
  /\ pc \in {"done", "cancelled"} => exited = entered
  /\ pc = "done" => entered = 1

\* cancelled while the body was being read
C18_Witness ==
  /\ pc = "cancelled"
  /\ jsonCalls = 0
  /\ rfsCalls = 1
  /\ entered = 1
  /\ exited = 1

\* an `except cls` handler receives an error of class k
CaughtBy(k, cls) == IsInstance(k, cls)

\* C19 as stated: no error the adapter raises is both an authentication
\* failure and a generic API failure.
C19_KindsDisjoint ==
  Done => ~(CaughtBy(outcome.kind, "NetroAuthError") /\ CaughtBy(outcome.kind, "NetroError"))

\* C19 as amended: the kinds are nested: every NetroAuthError is also a
\* NetroError, so a handler for NetroError receives it; an error raised as
\* plain NetroError is not a NetroAuthError.
C19_KindsNested ==
  Done =>
    /\ outcome.kind = "NetroAuthError" => CaughtBy(outcome.kind, "NetroError")
    /\ outcome.kind = "NetroError" => ~CaughtBy(outcome.kind, "NetroAuthError")
    /\ outcome.kind \in {"HTTPError", "JSONDecodeError"} =>
         ~CaughtBy(outcome.kind, "NetroError")

\* an invalid-key envelope: an authentication failure a NetroError handler gets
C19_Witness ==
  /\ Done
  /\ resp.status = 200
  /\ outcome.kind = "NetroAuthError"
  /\ CaughtBy(outcome.kind, "NetroError")

\* the catalogue: verb and endpoint of each method
Catalogue ==
  [get_info |-> <<"GET", "info">>, get_schedules |-> <<"GET", "schedules">>,
   get_moistures |-> <<"GET", "moistures">>, get_events |-> <<"GET", "events">>,
   get_sensor_data |-> <<"GET", "sensor_data">>,
   set_status |-> <<"POST", "set_status">>, water |-> <<"POST", "water">>,
   stop_water |-> <<"POST", "stop_water">>, no_water |-> <<"POST", "no_water">>,
   set_moisture |-> <<"POST", "set_moisture">>,
   report_weather |-> <<"POST", "report_weather">>]

\* b is u without its trailing slashes
IsStrippedOf(b, u) ==
  /\ Len(b) <= Len(u)
  /\ SubSeq(u, 1, Len(b)) = b
  /\ (Len(b) = 0 \/ b[Len(b)] # "/")
  /\ \A i \in (Len(b) + 1)..Len(u) : u[i] = "/"

\* C20: each method uses the verb of the catalogue and the URL
\* <base without trailing slashes>/<endpoint>.json, with the serial under
\* `key` and the configured timeout.
C20_VerbAndUrl ==
  Sent =>
    /\ req.verb = Catalogue[method][1]
    /\ Len(req.url) = 4
    /\ IsStrippedOf(req.url[1], cfg0.base_url.val)
    /\ req.url[2] = "/"
    /\ req.url[3] = Catalogue[method][2]
    /\ req.url[4] = ".json"
    /\ req.payload.key = args.key
    /\ req.timeout = cfg.default_timeout

\* report_weather on a base given with trailing slashes
C20_Witness ==
  /\ Sent
  /\ method = "report_weather"
  /\ cfg0.base_url = JStr(<<"h", "/", "/">>)
  /\ req.url = <<(<<"h">>), "/", "report_weather", ".json">>
  /\ req.timeout = 3

\* the request a method builds from its arguments
BuildReq(m, a) ==
  CASE m = "get_info" -> get_info(a)
    [] m = "get_schedules" -> get_schedules(a)
    [] m = "get_moistures" -> get_moistures(a)
    [] m = "get_events" -> get_events(a)
    [] m = "set_status" -> set_status(a)
    [] m = "water" -> water(a)
    [] m = "stop_water" -> stop_water(a)
    [] m = "no_water" -> no_water(a)
    [] m = "set_moisture" -> set_moisture(a)
    [] m = "report_weather" -> report_weather(a)
    [] m = "get_sensor_data" -> get_sensor_data(a)

\* the result _handle gives for a response
ResultOf(r) == IF StatusOutcome(r) # NoOutcome THEN StatusOutcome(r) ELSE BodyOutcome(r)

\* C17: with two calls in flight on one adapter, interleaved in any order,
\* what each call transmits is determined by its own method, arguments and
\* the configuration, each call's result is determined by its own response,
\* and the adapter's state stays as constructed.
C17_CallsIndependent ==
  /\ Sent => req = Transmit(BuildReq(method, args), BaseOf(cfg0), cfg0)
  /\ peer.pc = "sent" =>
       peer.req = Transmit(BuildReq(peer.method, peer.args), BaseOf(cfg0), cfg0)
  /\ (Sent /\ peer.pc = "sent" /\ method = peer.method /\ args = peer.args)
       => req = peer.req
  /\ Done => outcome = ResultOf(resp)
  /\ peer.pc = "done" => peer.outcome = ResultOf(peer.resp)
  /\ (pc = "done" /\ peer.pc = "done" /\ resp = peer.resp) => outcome = peer.outcome
  /\ cfg = cfg0
  /\ client = Construct(cfg0)

\* one call has returned its envelope while the other, issued with a different
\* method, has failed with its own authentication error
C17_Witness ==
  /\ Done
  /\ peer.pc = "done"
  /\ method = "set_status"
  /\ peer.method = "get_info"
  /\ outcome.kind = "return"
  /\ peer.outcome.kind = "NetroAuthError"
  /\ peer.resp.status = 200

\* lines 52-58 raised nothing for the response: the status is not 401/403
\* and raise_for_status() returned
CheckPassed == ~(resp.status \in {401, 403}) /\ resp.rfs = NoErr

\* C21: when the HTTP-error check passed and the body is not valid JSON, the
\* caller receives the parse error of resp.json() itself, neither wrapped in
\* nor replaced by NetroAuthError or NetroError; resp.json() is awaited only
\* after the HTTP-error check has passed.
C21_ParseErrorPropagates ==
  /\ (Done /\ CheckPassed /\ resp.body = JInvalid)
       => /\ outcome = ParseError
          /\ ~CaughtBy(outcome.kind, "NetroError")
          /\ jsonCalls = 1
  /\ (pc = "parsing" \/ jsonCalls > 0) => (rfsCalls = 1 /\ CheckPassed)

\* a 200 response whose body is not JSON
C21_Witness ==
  /\ Done
  /\ resp.status = 200
  /\ resp.body = JInvalid
  /\ jsonCalls = 1
  /\ outcome.kind = "JSONDecodeError"

\* C22: for a 401 or 403 response, when raise_for_status() raises, the
\* NetroAuthError carries that error's text and has it as its cause; when it
\* does not raise, the NetroAuthError carries "Authentication failed". Either
\* way raise_for_status() is called once.
C22_AuthFailureMessage ==
  (Done /\ resp.status \in {401, 403})
    => /\ outcome.kind = "NetroAuthError"
       /\ rfsCalls = 1
       /\ resp.rfs # NoErr => (outcome.msg = resp.rfs.msg /\ outcome.cause = resp.rfs)
       /\ resp.rfs = NoErr => outcome.msg = S_AuthFailed

\* a 401 whose check raised
C22_Witness ==
  /\ Done
  /\ resp.status = 401
  /\ resp.rfs = HTTPError(S_Forbidden)
  /\ outcome.msg = S_Forbidden
  /\ outcome.cause = HTTPError(S_Forbidden)
  /\ rfsCalls = 1

====
